---- MODULE Spec2Model ----
(***************************************************************************)
(* Order / inventory / payment reconciliation of the KULA backend.         *)
(*                                                                         *)
(* One listing (bag), a fixed set of order-creation requests (request r    *)
(* creates order r), one buyer, one restaurant owner, the payment gateway  *)
(* and the request handlers of routes/orders.ts, routes/payments.ts and    *)
(* routes/business.ts.  Every database statement (or $transaction) of a    *)
(* handler is one atomic step; a handler that reads and later writes is    *)
(* split at the await between the two, so that other handlers interleave.  *)
(***************************************************************************)
EXTENDS Integers, FiniteSets, Sequences, TLC

\* ------------------------------------------------------------------ bounds
MaxRequests == 2      \* order-creation requests (request r creates order r)
MaxQuantity == 2      \* largest quantityTotal / order quantity explored
MaxInflight == 2      \* handlers suspended between their read and their write
MaxPoints == 2        \* cap on loyaltyPoints
MaxRemaining == 3     \* cap on quantityRemaining
MaxDeliveries == 2    \* webhook deliveries per order
MaxTokens == 3        \* cap on the refreshToken rows
MaxUsers == 2         \* users that sign in
MaxStamps == 2        \* stamps of qrScannedAt per order row

Requests == 1..MaxRequests

\* Spec follows the orders of Orders through every handler that writes;
\* SpecCreate follows the concurrent creation requests of all of Requests
\* against a listing its owner edits; SpecPayments and SpecPickup follow one
\* order through the handlers of routes/payments and routes/business
Orders == {1}

Undefined == "undefined"

\* --------------------------------------------------------------- variables
VARIABLES
  bag,            \* the listing row
  clockEnded,     \* new Date() > bag.pickupEnd
  orders,         \* order rows, status "none" = no row
  payments,       \* payment rows (one per order), status "none" = no row
  loyaltyPoints,  \* users.loyaltyPoints of the buyer
  gw,             \* checkout session at the gateway, per order
  pc,             \* position of the POST /orders handler of each request
  quantity,       \* req.body.quantity of the request = order.quantity
  seen,           \* bag.quantityRemaining read by the reservation transaction
  result,         \* response of the POST /orders handler
  inflight,       \* handlers that passed their read and await their write
  whDelivered,    \* webhook payment.succeeded deliveries received, per order
  response,       \* last response of the cancel, scan, webhook, review
                  \* and auth handlers
  reviews,        \* review rows per order
  tokenRows,      \* refreshToken rows, in the order of their creation
  reserved,       \* history: quantity the order's reservation took
  released,       \* history: quantity added back on account of the order
  credited        \* history: loyalty points awarded on account of the order

vars == <<bag, clockEnded, orders, payments, loyaltyPoints, gw, pc, quantity, seen,
          result, inflight, whDelivered, response, reviews, tokenRows, reserved,
          released, credited>>

dbVars == <<bag, orders, payments, loyaltyPoints>>
histVars == <<reserved, released, credited>>
createVars == <<pc, quantity, seen, result>>
sideVars == <<reviews, tokenRows>>

\* ----------------------------------------------------------------- helpers
RECURSIVE SumOver(_, _)
SumOver(S, f) ==
  IF S = {} THEN 0
  ELSE LET x == CHOOSE y \in S : TRUE IN f[x] + SumOver(S \ {x}, f)

Stages == {"cancel", "scan", "patch_ready", "patch_collected",
           "patch_cancelled", "success", "restore", "delete", "review"}

NoRow == [status |-> "none", qrScannedAt |-> 0, cancelledById |-> "none"]
NoPayment == [status |-> "none", charged |-> FALSE]

InflightCount ==
  SumOver(Requests, [o \in Requests |-> SumOver(Stages, inflight[o])])

Suspend(o, st) ==
  inflight' = [inflight EXCEPT ![o][st] = @ + 1]

Resume(o, st) ==
  inflight' = [inflight EXCEPT ![o][st] = @ - 1]

\* ------------------------------------------------- environment validation
WebhookSecret == "whsec"

requiredEnvVars ==
  {"DATABASE_URL", "JWT_SECRET", "JWT_REFRESH_SECRET", "YOCO_SECRET_KEY",
   "YOCO_WEBHOOK_SECRET"}

missingEnvVars(env) == {envVar \in requiredEnvVars : env[envVar] = Undefined}

\* process.exit(1) unless every required variable is set
ServerStarts(env) == missingEnvVars(env) = {}

\* the environment of the running server
ProcessEnv ==
  [envVar \in requiredEnvVars |->
     IF envVar = "YOCO_WEBHOOK_SECRET" THEN WebhookSecret ELSE "set"]

\* -------------------------------------------------------------------- Init
Init ==
  /\ ServerStarts(ProcessEnv)
  /\ \E n \in 1..MaxQuantity :
       bag = [quantityTotal |-> n, quantityRemaining |-> n,
              isSoldOut |-> FALSE, isActive |-> TRUE]
  /\ clockEnded = FALSE
  /\ orders = [o \in Requests |-> NoRow]
  /\ payments = [o \in Requests |-> NoPayment]
  /\ loyaltyPoints = 0
  /\ gw = [o \in Requests |-> "none"]
  /\ pc = [o \in Requests |-> "idle"]
  /\ quantity = [o \in Requests |-> 0]
  /\ seen = [o \in Requests |-> 0]
  /\ result = [o \in Requests |-> "none"]
  /\ inflight = [o \in Requests |-> [s \in Stages |-> 0]]
  /\ whDelivered = [o \in Requests |-> 0]
  /\ response = "none"
  /\ reviews = [o \in Requests |-> 0]
  /\ tokenRows = <<>>
  /\ reserved = [o \in Requests |-> 0]
  /\ released = [o \in Requests |-> 0]
  /\ credited = [o \in Requests |-> 0]

\* ------------------------------------------------- inventory ledger (bag)
\* tx.bag.update: quantityRemaining { decrement }, isSoldOut from the value
\* the transaction read before the update
ReserveStale(b, q, readRemaining) ==
  [b EXCEPT !.quantityRemaining = readRemaining - q,
            !.isSoldOut = (readRemaining - q <= 0)]

Reserve(b, q, readRemaining) ==
  [b EXCEPT !.quantityRemaining = @ - q,
            !.isSoldOut = (readRemaining - q <= 0)]

\* the increment without isSoldOut: false
ReleaseKeepsFlag(b, q) ==
  [b EXCEPT !.quantityRemaining = @ + q]

\* bag.update: quantityRemaining { increment }, isSoldOut false
Release(b, q) ==
  [b EXCEPT !.quantityRemaining = @ + q, !.isSoldOut = FALSE]

\* the referential action of the payment's order relation: the payment row
\* goes with its order
OnDeleteOrder(o) == [payments EXCEPT ![o] = NoPayment]

\* order.delete
DeleteOrder(o) ==
  /\ orders' = [orders EXCEPT ![o] = NoRow]
  /\ payments' = OnDeleteOrder(o)

\* ------------------------------------------------------ POST /api/v1/orders
\* the checks of the reservation transaction, in the order of the code
\* the checks without the one of the pickup window
ReserveCheckNoWindow(found, b, q, ended) ==
  IF ~found THEN "Bag not found"
  ELSE IF ~b.isActive \/ b.isSoldOut THEN "Bag is not available"
  ELSE IF b.quantityRemaining < q THEN "Not enough bags available"
  ELSE "ok"

ReserveCheck(found, b, q, ended) ==
  IF ~found THEN "Bag not found"
  ELSE IF ~b.isActive \/ b.isSoldOut THEN "Bag is not available"
  ELSE IF b.quantityRemaining < q THEN "Not enough bags available"
  ELSE IF ended THEN "Pickup window has ended"
  ELSE "ok"

\* the transaction opens and reads the bag row (no row lock is taken)
CreateOrderRead(r, found, q) ==
  /\ pc[r] = "idle"
  /\ LET chk == ReserveCheck(found, bag, q, clockEnded) IN
       IF chk = "ok"
       THEN /\ pc' = [pc EXCEPT ![r] = "tx"]
            /\ seen' = [seen EXCEPT ![r] = bag.quantityRemaining]
            /\ quantity' = [quantity EXCEPT ![r] = q]
            /\ UNCHANGED result
       ELSE /\ pc' = [pc EXCEPT ![r] = "done"]
            /\ result' = [result EXCEPT ![r] = chk]
            /\ UNCHANGED <<seen, quantity>>
  /\ UNCHANGED <<bag, clockEnded, orders, payments, loyaltyPoints, gw, inflight,
                 whDelivered, sideVars, response, histVars>>

\* bag.update, the negative check, order.create and the commit
CreateOrderCommit(r) ==
  /\ pc[r] = "tx"
  /\ LET q == quantity[r]
         updatedBag == Reserve(bag, q, seen[r])
     IN IF updatedBag.quantityRemaining < 0
        THEN /\ pc' = [pc EXCEPT ![r] = "done"]
             /\ result' = [result EXCEPT ![r] = "Not enough bags available"]
             /\ UNCHANGED <<bag, orders, reserved>>
        ELSE /\ bag' = updatedBag
             /\ orders' = [orders EXCEPT ![r].status = "pending"]
             /\ reserved' = [reserved EXCEPT ![r] = q]
             /\ pc' = [pc EXCEPT ![r] = "checkout"]
             /\ UNCHANGED result
  /\ UNCHANGED <<clockEnded, payments, loyaltyPoints, gw, quantity, seen,
                 inflight, whDelivered, sideVars, response, released, credited>>

\* the catch block: order.delete, 500
CheckoutCatch(r) ==
  /\ DeleteOrder(r)
  /\ pc' = [pc EXCEPT ![r] = "done"]
  /\ result' = [result EXCEPT ![r] = "Failed to create payment checkout"]

\* yoco.createCheckout returns a session
CreateCheckoutOk(r) ==
  /\ pc[r] = "checkout"
  /\ gw' = [gw EXCEPT ![r] = "created"]
  /\ pc' = [pc EXCEPT ![r] = "payment"]
  /\ UNCHANGED <<bag, clockEnded, orders, payments, loyaltyPoints, quantity,
                 seen, result, inflight, whDelivered, sideVars, response, histVars>>

\* yoco.createCheckout throws
CreateCheckoutThrows(r) ==
  /\ pc[r] = "checkout"
  /\ CheckoutCatch(r)
  /\ UNCHANGED <<bag, clockEnded, loyaltyPoints, gw, quantity, seen, inflight,
                 whDelivered, sideVars, response, histVars>>

\* payment.create succeeds, 201
RecordPaymentOk(r) ==
  /\ pc[r] = "payment"
  /\ payments' = [payments EXCEPT ![r] = [status |-> "pending", charged |-> FALSE]]
  /\ pc' = [pc EXCEPT ![r] = "done"]
  /\ result' = [result EXCEPT ![r] = "201"]
  /\ UNCHANGED <<bag, clockEnded, orders, loyaltyPoints, gw, quantity, seen, inflight,
                 whDelivered, sideVars, response, histVars>>

\* payment.create throws
RecordPaymentThrows(r) ==
  /\ pc[r] = "payment"
  /\ CheckoutCatch(r)
  /\ UNCHANGED <<bag, clockEnded, loyaltyPoints, gw, quantity, seen, inflight,
                 whDelivered, sideVars, response, histVars>>

CreateOrder(r) ==
  \/ \E found \in BOOLEAN, q \in 1..MaxQuantity : CreateOrderRead(r, found, q)
  \/ CreateOrderCommit(r)
  \/ CreateCheckoutOk(r)
  \/ CreateCheckoutThrows(r)
  \/ RecordPaymentOk(r)
  \/ RecordPaymentThrows(r)

\* ------------------------------------------------ POST /orders/:id/cancel
\* the checks without the one of the order's status
CancelCheckAnyStatus(o, owner) ==
  IF orders[o].status = "none" THEN "Order not found"
  ELSE IF ~owner THEN "Not authorized"
  ELSE "ok"

\* the handler's checks before its transaction
CancelCheck(o, owner) ==
  IF orders[o].status = "none" THEN "Order not found"
  ELSE IF ~owner THEN "Not authorized"
  ELSE IF orders[o].status \notin {"pending", "paid"}
       THEN "Order cannot be cancelled"
  ELSE "ok"

\* order.findUnique and the three checks
CancelRead(o) ==
  /\ CancelCheck(o, TRUE) = "ok"
  /\ InflightCount < MaxInflight
  /\ Suspend(o, "cancel")
  /\ UNCHANGED <<dbVars, clockEnded, gw, createVars, whDelivered, sideVars, response,
                 histVars>>

\* $transaction([order.update -> cancelled, bag.update increment]); the
\* update of a missing order throws and the transaction rolls back
CancelTx(o) ==
  IF orders[o].status = "none"
  THEN UNCHANGED <<orders, bag, released, response>>
  ELSE /\ orders' = [orders EXCEPT ![o].status = "cancelled",
                                   ![o].cancelledById = "buyer"]
       /\ bag' = Release(bag, quantity[o])
       /\ released' = [released EXCEPT ![o] = @ + quantity[o]]
       /\ response' = "Order cancelled"

\* one of the checks answers 404, 403 or 400
CancelReject(o, owner) ==
  /\ CancelCheck(o, owner) # "ok"
  /\ response' = CancelCheck(o, owner)
  /\ UNCHANGED <<dbVars, clockEnded, gw, createVars, inflight, whDelivered, sideVars,
                 histVars>>

CancelWrite(o) ==
  /\ inflight[o]["cancel"] > 0
  /\ bag.quantityRemaining + quantity[o] <= MaxRemaining
  /\ Resume(o, "cancel")
  /\ CancelTx(o)
  /\ UNCHANGED <<clockEnded, payments, loyaltyPoints, gw, createVars,
                 whDelivered, sideVars, reserved, credited>>

\* ------------------------------------- PATCH /business/orders/:id/status
PatchStatuses == {"ready", "collected", "cancelled"}

PatchStage(st) ==
  CASE st = "ready" -> "patch_ready"
    [] st = "collected" -> "patch_collected"
    [] st = "cancelled" -> "patch_cancelled"

\* restaurant.findUnique, order.findUnique, the 404 check
PatchRead(o, st) ==
  /\ orders[o].status # "none"
  /\ InflightCount < MaxInflight
  /\ Suspend(o, PatchStage(st))
  /\ UNCHANGED <<dbVars, clockEnded, gw, createVars, whDelivered, sideVars, response,
                 histVars>>

\* order.update({ status }), with qrScannedAt: new Date() for collected; a
\* missing order throws.  qrScannedAt is 0 for null and counts the stamps
\* of the row: every stamp is a later time than the one before
PatchUpdate(o, st) ==
  IF orders[o].status = "none"
  THEN UNCHANGED orders
  ELSE orders' = [orders EXCEPT
                    ![o].status = st,
                    ![o].qrScannedAt = IF st = "collected" THEN @ + 1 ELSE @,
                    ![o].cancelledById =
                       IF st = "cancelled" THEN "restaurant" ELSE @]

PatchWrite(o, st) ==
  /\ inflight[o][PatchStage(st)] > 0
  /\ st = "collected" => orders[o].qrScannedAt < MaxStamps
  /\ Resume(o, PatchStage(st))
  /\ PatchUpdate(o, st)
  /\ UNCHANGED <<bag, clockEnded, payments, loyaltyPoints, gw, createVars,
                 whDelivered, sideVars, response, histVars>>

\* --------------------------------------- POST /business/orders/:id/scan
\* the checks without the one of the order's status
ScanCheckAnyStatus(o, ownRestaurant) ==
  IF orders[o].status = "none" THEN "Invalid QR code"
  ELSE IF ~ownRestaurant THEN "Order belongs to another restaurant"
  ELSE "ok"

ScanCheck(o, ownRestaurant) ==
  IF orders[o].status = "none" THEN "Invalid QR code"
  ELSE IF ~ownRestaurant THEN "Order belongs to another restaurant"
  ELSE IF orders[o].status \notin {"paid", "ready"}
       THEN "Order cannot be collected"
  ELSE "ok"

\* order.findUnique({ qrCode }) and the checks
ScanRead(o) ==
  /\ ScanCheck(o, TRUE) = "ok"
  /\ InflightCount < MaxInflight
  /\ Suspend(o, "scan")
  /\ UNCHANGED <<dbVars, clockEnded, gw, createVars, whDelivered, sideVars, response,
                 histVars>>

\* one of the checks answers 404, 403 or 400
ScanReject(o, ownRestaurant) ==
  /\ ScanCheck(o, ownRestaurant) # "ok"
  /\ response' = ScanCheck(o, ownRestaurant)
  /\ UNCHANGED <<dbVars, clockEnded, gw, createVars, inflight, whDelivered, sideVars,
                 histVars>>

\* order.update({ status: collected, qrScannedAt: new Date() })
ScanUpdate(o) ==
  IF orders[o].status = "none"
  THEN UNCHANGED <<orders, response>>
  ELSE /\ orders' = [orders EXCEPT ![o].status = "collected",
                                   ![o].qrScannedAt = @ + 1]
       /\ response' = "Order marked as collected"

ScanWrite(o) ==
  /\ inflight[o]["scan"] > 0
  /\ orders[o].qrScannedAt < MaxStamps
  /\ Resume(o, "scan")
  /\ ScanUpdate(o)
  /\ UNCHANGED <<bag, clockEnded, payments, loyaltyPoints, gw, createVars,
                 whDelivered, sideVars, histVars>>

\* ------------------------------------------------------ routes/payments
\* the success transition: order -> paid, payment -> succeeded, loyalty
\* points incremented by order.quantity; an update of a missing row throws
\* and the transaction rolls back.  The webhook also stores the charge id.
\* the three updates without the transaction's payment.update
SuccessTxSplit(o, charge) ==
  IF orders[o].status = "none" \/ payments[o].status = "none"
  THEN UNCHANGED <<orders, payments, loyaltyPoints, credited>>
  ELSE /\ orders' = [orders EXCEPT ![o].status = "paid"]
       /\ UNCHANGED payments
       /\ loyaltyPoints' = loyaltyPoints + quantity[o]
       /\ credited' = [credited EXCEPT ![o] = @ + quantity[o]]

SuccessTx(o, charge) ==
  IF orders[o].status = "none" \/ payments[o].status = "none"
  THEN UNCHANGED <<orders, payments, loyaltyPoints, credited>>
  ELSE /\ orders' = [orders EXCEPT ![o].status = "paid"]
       /\ payments' = [payments EXCEPT ![o].status = "succeeded",
                                       ![o].charged = @ \/ charge]
       /\ loyaltyPoints' = loyaltyPoints + quantity[o]
       /\ credited' = [credited EXCEPT ![o] = @ + quantity[o]]

\* yoco.getCheckoutStatus: the status field of the gateway's checkout
getCheckoutStatus(o) == gw[o]

\* GET /yoco/success: order.findUnique with its payment, then the status
\* poll.  The two reads are one step: the poll depends on the gateway only.
SuccessRead(o) ==
  /\ result[o] = "201"
  /\ orders[o].status # "none"
  /\ payments[o].status # "none"
  /\ getCheckoutStatus(o) = "successful"
  /\ InflightCount < MaxInflight
  /\ Suspend(o, "success")
  /\ UNCHANGED <<dbVars, clockEnded, gw, createVars, whDelivered, sideVars, response,
                 histVars>>

SuccessWrite(o) ==
  /\ inflight[o]["success"] > 0
  /\ loyaltyPoints + quantity[o] <= MaxPoints
  /\ Resume(o, "success")
  /\ SuccessTx(o, FALSE)
  /\ UNCHANGED <<bag, clockEnded, gw, createVars, whDelivered, sideVars, response, reserved,
                 released>>

\* GET /yoco/cancel and GET /yoco/failure: restoreInventory's
\* order.findUnique; without a row nothing is updated and order.delete
\* throws into the empty catch
RedirectRead(o, which) ==
  /\ which \in {"cancel", "failure"}
  /\ result[o] = "201"
  /\ orders[o].status # "none"
  /\ InflightCount < MaxInflight
  /\ Suspend(o, "restore")
  /\ UNCHANGED <<dbVars, clockEnded, gw, createVars, whDelivered, sideVars, response,
                 histVars>>

\* restoreInventory's bag.update
restoreInventory(o) ==
  /\ inflight[o]["restore"] > 0
  /\ bag.quantityRemaining + quantity[o] <= MaxRemaining
  /\ inflight' = [inflight EXCEPT ![o]["restore"] = @ - 1,
                                  ![o]["delete"] = @ + 1]
  /\ bag' = Release(bag, quantity[o])
  /\ released' = [released EXCEPT ![o] = @ + quantity[o]]
  /\ UNCHANGED <<clockEnded, orders, payments, loyaltyPoints, gw, createVars,
                 whDelivered, sideVars, response, reserved, credited>>

\* order.delete of the redirect handlers; a missing row throws (ignored)
RedirectDelete(o) ==
  /\ inflight[o]["delete"] > 0
  /\ Resume(o, "delete")
  /\ IF orders[o].status = "none"
     THEN UNCHANGED <<orders, payments>>
     ELSE DeleteOrder(o)
  /\ UNCHANGED <<bag, clockEnded, loyaltyPoints, gw, createVars, whDelivered, sideVars, response,
                 histVars>>

\* the deep link each redirect handler answers with, from the rows it reads:
\* /yoco/success answers error without the order, success after its
\* transaction, pending otherwise; /yoco/cancel and /yoco/failure always
\* answer cancelled and failed
RedirectLink(handler, o) ==
  CASE handler = "success" ->
         IF orders[o].status = "none" THEN "payment/error"
         ELSE IF payments[o].status # "none"
                 /\ getCheckoutStatus(o) = "successful"
              THEN "payment/success"
         ELSE "payment/pending"
    [] handler = "cancel" -> "payment/cancelled"
    [] handler = "failure" -> "payment/failed"

\* ------------------------------------------------------- POST /yoco/webhook
EventId == "evt"
EventTimestamp == "ts"
EventTypes == {"payment.succeeded", "payment.failed", "refund.succeeded"}

Hmac(key, id, ts, body) == [key |-> key, id |-> id, ts |-> ts, body |-> body]

NoSignature == Hmac("", "", "", [type |-> "", checkout |-> 0])
ForgedSignature == Hmac("forged", "", "", [type |-> "", checkout |-> 0])

\* the signature the provider sends with an event
ProviderSignature(body) == Hmac(WebhookSecret, EventId, EventTimestamp, body)

\* services/yoco.ts verifyWebhookSignature: webhookSecret.replace on an
\* undefined fifth argument is a TypeError
verifyWebhookSignature(payload, signature, webhookId, webhookTimestamp, webhookSecret) ==
  IF webhookSecret = Undefined THEN "TypeError"
  ELSE IF signature = Hmac(webhookSecret, webhookId, webhookTimestamp, payload)
       THEN "true"
  ELSE "false"

\* the switch on the event type
WebhookDispatch(type, o) ==
  CASE type = "payment.succeeded" ->
         /\ SuccessTx(o, TRUE)
         /\ UNCHANGED <<bag, released>>
    [] type = "payment.failed" ->
         IF payments[o].status = "none" \/ orders[o].status = "none"
         THEN UNCHANGED <<dbVars, released, credited>>
         ELSE /\ bag' = Release(bag, quantity[o])
              /\ released' = [released EXCEPT ![o] = @ + quantity[o]]
              /\ DeleteOrder(o)
              /\ UNCHANGED <<loyaltyPoints, credited>>
    [] type = "refund.succeeded" ->
         IF ~payments[o].charged \/ orders[o].status = "none"
         THEN UNCHANGED <<dbVars, released, credited>>
         ELSE /\ bag' = Release(bag, quantity[o])
              /\ released' = [released EXCEPT ![o] = @ + quantity[o]]
              /\ payments' = [payments EXCEPT ![o].status = "refunded"]
              /\ orders' = [orders EXCEPT ![o].status = "refunded"]
              /\ UNCHANGED <<loyaltyPoints, credited>>

\* the handler without its isValid check
WebhookGateUnverified(body, signature, envSecret) ==
  IF envSecret = Undefined THEN "500 Webhook not configured"
  ELSE IF signature = NoSignature THEN "401 Missing signature"
  ELSE "dispatch"

\* the response of the handler up to the dispatch; the handler passes
\* (body, signature, secret) to the five-parameter verifyWebhookSignature
WebhookGate(body, signature, envSecret) ==
  IF envSecret = Undefined THEN "500 Webhook not configured"
  ELSE IF signature = NoSignature THEN "401 Missing signature"
  ELSE LET isValid == verifyWebhookSignature(body, signature, envSecret,
                                             Undefined, Undefined)
       IN IF isValid = "TypeError" THEN "TypeError"
          ELSE IF isValid = "false" THEN "401 Invalid signature"
          ELSE "dispatch"

\* the events the provider itself sends about checkout o
ProviderSends(type, o) ==
  IF type = "payment.failed" THEN gw[o] = "created" ELSE gw[o] = "successful"

\* one delivery of an event about checkout o, signed by the provider or not
Webhook(o, type, signature) ==
  /\ gw[o] # "none"
  /\ signature = ProviderSignature([type |-> type, checkout |-> o])
       => ProviderSends(type, o)
  /\ whDelivered[o] < MaxDeliveries
  /\ whDelivered' = [whDelivered EXCEPT ![o] =
        IF type = "payment.succeeded"
           /\ signature = ProviderSignature([type |-> type, checkout |-> o])
        THEN @ + 1 ELSE @]
  /\ LET gate == WebhookGate([type |-> type, checkout |-> o], signature,
                              ProcessEnv["YOCO_WEBHOOK_SECRET"])
     IN IF gate = "dispatch"
        THEN WebhookDispatch(type, o) /\ response' = "received"
        ELSE response' = gate /\ UNCHANGED <<dbVars, released, credited>>
  /\ UNCHANGED <<clockEnded, gw, createVars, inflight, sideVars, reserved>>

\* ---------------------------------------------------------------- environment
\* the buyer pays on the gateway's hosted page
GatewayPays(o) ==
  /\ result[o] = "201"
  /\ gw[o] = "created"
  /\ gw' = [gw EXCEPT ![o] = "successful"]
  /\ UNCHANGED <<dbVars, clockEnded, createVars, inflight, whDelivered, sideVars, response,
                 histVars>>

\* the pickup window of the listing ends
ClockTick ==
  /\ ~clockEnded
  /\ clockEnded' = TRUE
  /\ UNCHANGED <<dbVars, gw, createVars, inflight, whDelivered, sideVars, response, histVars>>

\* PATCH /bags/:id by the listing's owner: every field of the body is
\* written to the row
PatchBodies == {[isActive |-> FALSE], [isActive |-> TRUE]}

\* bodies that name the stock fields of the row
StockBodies ==
  {[quantityRemaining |-> n] : n \in 0..MaxRemaining}
    \cup {[isSoldOut |-> FALSE], [isSoldOut |-> TRUE]}

PatchBag(body) ==
  /\ bag' = [f \in DOMAIN bag |-> IF f \in DOMAIN body THEN body[f] ELSE bag[f]]
  /\ UNCHANGED <<clockEnded, orders, payments, loyaltyPoints, gw, createVars,
                 inflight, whDelivered, sideVars, response, histVars>>

\* ------------------------------------------------------- routes/reviews
\* POST /orders/:orderId/review: the checks made on the order that
\* findUnique returned, with its review relation
ReviewCheckAnyStatus(o, owner) ==
  IF orders[o].status = "none" THEN "Order not found"
  ELSE IF ~owner THEN "Not authorized"
  ELSE IF reviews[o] > 0 THEN "Review already exists"
  ELSE "ok"

ReviewCheck(o, owner) ==
  IF orders[o].status = "none" THEN "Order not found"
  ELSE IF ~owner THEN "Not authorized"
  ELSE IF orders[o].status # "collected"
       THEN "Can only review collected orders"
  ELSE IF reviews[o] > 0 THEN "Review already exists"
  ELSE "ok"

\* loyalty points awarded for a review
ReviewBonus == 5

\* Review.orderId is the key of the one-to-one relation order.review: the
\* database accepts a review row only for an existing order that has none
ReviewOrderUnique(o) ==
  orders[o].status # "none" /\ reviews[o] = 0

\* order.findUnique and the checks
ReviewRead(o) ==
  /\ ReviewCheck(o, TRUE) = "ok"
  /\ InflightCount < MaxInflight
  /\ Suspend(o, "review")
  /\ UNCHANGED <<dbVars, clockEnded, gw, createVars, whDelivered, sideVars,
                 response, histVars>>

\* one of the checks answers 404, 403, 400 or 409
ReviewReject(o, owner) ==
  /\ ReviewCheck(o, owner) # "ok"
  /\ response' = ReviewCheck(o, owner)
  /\ UNCHANGED <<dbVars, clockEnded, gw, createVars, inflight, whDelivered,
                 sideVars, histVars>>

\* review.create, then user.update({ loyaltyPoints: { increment: 5 } });
\* a create that the database refuses throws before the increment
ReviewWrite(o) ==
  /\ inflight[o]["review"] > 0
  /\ loyaltyPoints <= MaxPoints * ReviewBonus
  /\ Resume(o, "review")
  /\ IF ReviewOrderUnique(o)
     THEN /\ reviews' = [reviews EXCEPT ![o] = @ + 1]
          /\ loyaltyPoints' = loyaltyPoints + ReviewBonus
          /\ response' = "Review created"
     ELSE /\ response' = "review.create throws"
          /\ UNCHANGED <<reviews, loyaltyPoints>>
  /\ UNCHANGED <<bag, clockEnded, orders, payments, gw, createVars,
                 whDelivered, tokenRows, histVars>>

\* DELETE /reviews/:id by the review's author: the row is deleted, the
\* points it earned stay
DeleteReview(o) ==
  /\ reviews[o] > 0
  /\ reviews' = [reviews EXCEPT ![o] = @ - 1]
  /\ response' = "Review deleted"
  /\ UNCHANGED <<dbVars, clockEnded, gw, createVars, inflight, whDelivered,
                 tokenRows, histVars>>

\* ---------------------------------------------------------- routes/auth
Users == 1..MaxUsers

\* a refresh token is named by the number of the row that stores its hash;
\* token 0 is one that was not signed with JWT_REFRESH_SECRET
ForgedToken == 0

\* the outcome of a jwt.verify that throws
VerifyThrows == 0

\* utils/jwt.ts verifyRefreshToken: jwt.verify returns the payload of a
\* token that carries the server's signature, here its sub, and throws
\* otherwise; the refreshToken table is not read
verifyRefreshToken(token) ==
  IF token \in DOMAIN tokenRows THEN tokenRows[token].userId
  ELSE VerifyThrows

\* generateAndStoreTokens: a new token pair, the hash of the refresh token
\* stored in a row of its own
generateAndStoreTokens(user) ==
  Append(tokenRows, [userId |-> user, revoked |-> FALSE])

\* a sign-in (register, login, OAuth) answers a token pair
Login(user) ==
  /\ Len(tokenRows) < MaxTokens
  /\ tokenRows' = generateAndStoreTokens(user)
  /\ response' = "tokens"
  /\ UNCHANGED <<dbVars, clockEnded, gw, createVars, inflight, whDelivered,
                 reviews, histVars>>

\* POST /auth/refresh: verify, look the user up, store and answer a new pair
Refresh(token) ==
  /\ LET sub == verifyRefreshToken(token)
     IN IF sub = VerifyThrows
        THEN /\ response' = "Invalid refresh token"
             /\ UNCHANGED tokenRows
        ELSE /\ Len(tokenRows) < MaxTokens
             /\ tokenRows' = Append(tokenRows,
                                    [userId |-> sub, revoked |-> FALSE])
             /\ response' = "refreshed tokens"
  /\ UNCHANGED <<dbVars, clockEnded, gw, createVars, inflight, whDelivered,
                 reviews, histVars>>

\* POST /auth/logout of a signed-in user: updateMany sets revokedAt on the
\* user's rows that have none
Logout(user) ==
  /\ \E t \in DOMAIN tokenRows : tokenRows[t].userId = user
  /\ tokenRows' = [t \in DOMAIN tokenRows |->
                     IF tokenRows[t].userId = user
                     THEN [tokenRows[t] EXCEPT !.revoked = TRUE]
                     ELSE tokenRows[t]]
  /\ response' = "Logged out successfully"
  /\ UNCHANGED <<dbVars, clockEnded, gw, createVars, inflight, whDelivered,
                 reviews, histVars>>

\* ----------------------------------------------------------- specifications
\* concurrent order creation against one listing
NextCreate ==
  \/ \E r \in Requests : CreateOrder(r)
  \/ \E body \in PatchBodies : PatchBag(body)
  \/ ClockTick

SpecCreate == Init /\ [][NextCreate]_vars

Next ==
  \/ \E r \in Orders : CreateOrder(r)
  \/ \E o \in Orders : CancelRead(o)
  \/ \E o \in Orders : CancelWrite(o)
  \/ \E o \in Orders, st \in PatchStatuses : PatchRead(o, st)
  \/ \E o \in Orders, st \in PatchStatuses : PatchWrite(o, st)
  \/ \E o \in Orders : ScanRead(o)
  \/ \E o \in Orders : ScanWrite(o)
  \/ \E o \in Orders : SuccessRead(o)
  \/ \E o \in Orders : SuccessWrite(o)
  \/ \E o \in Orders, which \in {"cancel", "failure"} : RedirectRead(o, which)
  \/ \E o \in Orders : restoreInventory(o)
  \/ \E o \in Orders : RedirectDelete(o)
  \/ \E o \in Orders, type \in EventTypes :
       \E signature \in {NoSignature, ForgedSignature,
                         ProviderSignature([type |-> type, checkout |-> o])} :
         Webhook(o, type, signature)
  \/ \E o \in Orders : GatewayPays(o)
  \/ ClockTick

Spec == Init /\ [][Next]_vars

\* the handlers that create or delete order and payment rows or move stock:
\* routes/orders.ts and routes/payments.ts
NextPayments ==
  \/ \E r \in Orders : CreateOrder(r)
  \/ \E o \in Orders : CancelRead(o)
  \/ \E o \in Orders : CancelWrite(o)
  \/ \E o \in Orders : SuccessRead(o)
  \/ \E o \in Orders : SuccessWrite(o)
  \/ \E o \in Orders, which \in {"cancel", "failure"} : RedirectRead(o, which)
  \/ \E o \in Orders : restoreInventory(o)
  \/ \E o \in Orders : RedirectDelete(o)
  \/ \E o \in Orders, type \in EventTypes :
       \E signature \in {NoSignature, ForgedSignature,
                         ProviderSignature([type |-> type, checkout |-> o])} :
         Webhook(o, type, signature)
  \/ \E o \in Orders : GatewayPays(o)
  \/ \E o \in Requests, owner \in BOOLEAN : CancelReject(o, owner)

SpecPayments == Init /\ [][NextPayments]_vars

\* a handler that waits on a database or gateway call is resumed by the
\* event loop: the steps that continue a request already accepted
HandlerContinues ==
  \E o \in Orders :
    \/ CreateOrderCommit(o)
    \/ CreateCheckoutOk(o) \/ CreateCheckoutThrows(o)
    \/ RecordPaymentOk(o) \/ RecordPaymentThrows(o)
    \/ CancelWrite(o)
    \/ SuccessWrite(o)
    \/ restoreInventory(o)
    \/ RedirectDelete(o)

\* the payment handlers under fair scheduling of the requests in flight;
\* new requests, payments and deliveries arrive when their senders choose
SpecPaymentsFair ==
  Init /\ [][NextPayments]_vars /\ WF_vars(HandlerContinues)

\* the handlers that write the listing row: order creation, the buyer's
\* cancel, the cancel and failure redirects and the owner's PATCH /bags/:id
\* with any body
NextListing ==
  \/ \E r \in Orders : CreateOrder(r)
  \/ \E o \in Orders : CancelRead(o)
  \/ \E o \in Orders : CancelWrite(o)
  \/ \E o \in Orders, which \in {"cancel", "failure"} : RedirectRead(o, which)
  \/ \E o \in Orders : restoreInventory(o)
  \/ \E o \in Orders : RedirectDelete(o)
  \/ \E body \in PatchBodies \cup StockBodies : PatchBag(body)

SpecListing == Init /\ [][NextListing]_vars

\* the pickup of an order: creation, payment, and the restaurant's handlers
\* of routes/business.ts with every answer of the scan
NextPickup ==
  \/ \E r \in Orders : CreateOrder(r)
  \/ \E o \in Orders : GatewayPays(o)
  \/ \E o \in Orders : SuccessRead(o)
  \/ \E o \in Orders : SuccessWrite(o)
  \/ \E o \in Orders, st \in PatchStatuses : PatchRead(o, st)
  \/ \E o \in Orders, st \in PatchStatuses : PatchWrite(o, st)
  \/ \E o \in Orders : ScanRead(o)
  \/ \E o \in Requests, ownRestaurant \in BOOLEAN : ScanReject(o, ownRestaurant)
  \/ \E o \in Orders : ScanWrite(o)

SpecPickup == Init /\ [][NextPickup]_vars

\* the review of an order: creation, payment, the pickup and the buyer's
\* POST /orders/:orderId/review with every answer
NextReview ==
  \/ \E r \in Orders : CreateOrder(r)
  \/ \E o \in Orders : GatewayPays(o)
  \/ \E o \in Orders : SuccessRead(o)
  \/ \E o \in Orders : SuccessWrite(o)
  \/ \E o \in Orders : ScanRead(o)
  \/ \E o \in Orders : ScanWrite(o)
  \/ \E o \in Orders : ReviewRead(o)
  \/ \E o \in Requests, owner \in BOOLEAN : ReviewReject(o, owner)
  \/ \E o \in Orders : ReviewWrite(o)
  \/ \E o \in Orders : DeleteReview(o)

SpecReview == Init /\ [][NextReview]_vars

\* the session handlers of routes/auth.ts
NextAuth ==
  \/ \E user \in Users : Login(user)
  \/ \E token \in {ForgedToken} \cup 1..MaxTokens : Refresh(token)
  \/ \E user \in Users : Logout(user)

SpecAuth == Init /\ [][NextAuth]_vars

\* ------------------------------------------------------------------ claims
Holding == {"pending", "paid", "ready", "collected"}

HeldQuantity(o) == IF orders[o].status \in Holding THEN quantity[o] ELSE 0

\* the order row was created and is gone
Removed(o) == orders[o].status = "none" /\ reserved[o] > 0

Terminal(o) == orders[o].status \in {"collected", "cancelled", "refunded"}

FailureState(o) == orders[o].status \in {"cancelled", "refunded"} \/ Removed(o)

\* no handler of order o is between its read and its write
Quiet(o) == pc[o] = "done" /\ \A st \in Stages : inflight[o][st] = 0

\* a step of one of the handlers that carry a signal about order o
SignalStep(o) ==
  \/ CancelRead(o) \/ CancelWrite(o)
  \/ \E st \in PatchStatuses : PatchRead(o, st) \/ PatchWrite(o, st)
  \/ ScanRead(o) \/ ScanWrite(o)
  \/ SuccessRead(o) \/ SuccessWrite(o)
  \/ \E which \in {"cancel", "failure"} : RedirectRead(o, which)
  \/ restoreInventory(o) \/ RedirectDelete(o)
  \/ \E type \in EventTypes :
       Webhook(o, type, ProviderSignature([type |-> type, checkout |-> o]))

\* C1: in every reachable state quantityRemaining plus the quantities of the
\* orders that hold a reservation (pending, paid, ready, collected) equals
\* quantityTotal
C1_InventoryAccounted ==
  bag.quantityRemaining + SumOver(Requests, [o \in Requests |-> HeldQuantity(o)])
    = bag.quantityTotal

\* C2: 0 <= quantityRemaining <= quantityTotal in every reachable state
C2_RemainingInRange ==
  /\ 0 <= bag.quantityRemaining
  /\ bag.quantityRemaining <= bag.quantityTotal

\* two creation requests of quantity 1 that both read quantityRemaining = 1
\* and both left the reservation transaction, no other request started
RacedForLastUnit(r1, r2) ==
  /\ r1 # r2
  /\ quantity[r1] = 1 /\ quantity[r2] = 1
  /\ seen[r1] = 1 /\ seen[r2] = 1
  /\ pc[r1] \notin {"idle", "tx"} /\ pc[r2] \notin {"idle", "tx"}
  /\ \A r3 \in Requests \ {r1, r2} : pc[r3] = "idle"

\* C3: concurrent creation requests against a listing with N units reserve
\* at most N in total, and of two requests of quantity 1 racing for the last
\* unit exactly one creates its order while the other gets 'Not enough bags
\* available'
C3_ConcurrentReservation ==
  /\ SumOver(Requests, reserved) <= bag.quantityTotal
  /\ \A r1, r2 \in Requests :
       RacedForLastUnit(r1, r2) =>
         /\ (reserved[r1] > 0) # (reserved[r2] > 0)
         /\ \A r \in {r1, r2} :
              reserved[r] = 0 => result[r] = "Not enough bags available"

C3_Witness ==
  \E r1, r2 \in Requests :
    /\ RacedForLastUnit(r1, r2)
    /\ reserved[r1] = 1
    /\ result[r2] = "Not enough bags available"

\* C4: once an order that was created with its checkout has come to rest,
\* the quantity added back to the listing on its account is order.quantity
\* if it ended cancelled, removed or refunded, and 0 otherwise
C4_ReleasedExactlyOnce ==
  \A o \in Requests :
    (result[o] = "201" /\ Quiet(o)) =>
      released[o] = IF FailureState(o) THEN quantity[o] ELSE 0

\* C5: after the payment.succeeded event of an order was delivered twice,
\* the order has been credited loyalty points exactly once and nothing was
\* added back to the listing
C5_TwoDeliveriesOneCredit ==
  \A o \in Requests :
    (whDelivered[o] >= 2 /\ orders[o].status # "none" /\ Quiet(o)) =>
      /\ credited[o] = quantity[o]
      /\ released[o] = 0

\* C6: whatever mix of success signals arrives, the buyer is credited the
\* order's loyalty points at most once: a success redirect that finds the
\* payment succeeded changes nothing
C6_CreditedOnce ==
  \A o \in Requests : credited[o] \in {0, quantity[o]}

\* C7: a step of a signal about an order that is already in a terminal
\* state (collected, cancelled, refunded, removed) leaves quantityRemaining,
\* the sold-out flag and the loyalty points unchanged
C7_TerminalWins ==
  [][\A o \in Requests :
       ((Terminal(o) \/ Removed(o)) /\ SignalStep(o)) =>
         UNCHANGED <<bag, loyaltyPoints>>]_vars

\* C8: an order whose status is collected, cancelled or refunded keeps that
\* status in every step of a status change, scan, cancel, redirect or webhook
C8_TerminalAbsorbing ==
  [][\A o \in Requests :
       (Terminal(o) /\ SignalStep(o)) =>
         orders'[o].status = orders[o].status]_vars

\* C9: when order creation ended with the checkout failure, its order and
\* payment are gone and the reserved quantity was given back to the listing
C9_CheckoutFailureCompensated ==
  \A r \in Requests :
    result[r] = "Failed to create payment checkout" =>
      /\ orders[r].status = "none"
      /\ payments[r].status = "none"
      /\ released[r] = quantity[r]

\* C10: the write of a buyer cancel that finds the order finalized since
\* its status read (collected, refunded or removed) changes neither the
\* order nor the listing
C10_CancelGuardAtomic ==
  [][\A o \in Requests :
       (CancelWrite(o) /\ (orders[o].status \in {"collected", "refunded"}
                           \/ Removed(o))) =>
         UNCHANGED <<orders, bag>>]_vars

\* C11: no order that was created with its checkout exists pending or paid
\* while quantity was added back to the listing on its account, and none is
\* removed or refunded while its reservation is still held
C11_FailureAtomic ==
  \A o \in Requests :
    result[o] = "201" =>
      /\ orders[o].status \in {"pending", "paid"} => released[o] = 0
      /\ (Removed(o) \/ orders[o].status = "refunded") => released[o] > 0

\* C12: every step changes the order's status to paid, the payment's status
\* to succeeded and the order's loyalty credit all together or not at all
SuccessApplied(o) ==
  /\ orders'[o].status = "paid"
  /\ payments'[o].status = "succeeded"
  /\ loyaltyPoints' = loyaltyPoints + quantity[o]
  /\ credited'[o] = credited[o] + quantity[o]

C12_SuccessAtomic ==
  [][\A o \in Requests :
       (SuccessWrite(o)
        \/ Webhook(o, "payment.succeeded",
                   ProviderSignature([type |-> "payment.succeeded",
                                      checkout |-> o])))
         => \/ SuccessApplied(o)
            \/ UNCHANGED <<orders, payments, loyaltyPoints, credited>>]_vars

\* C12: a success redirect has applied the success transition
C12_Witness ==
  \E o \in Requests :
    /\ credited[o] = quantity[o]
    /\ orders[o].status = "paid"
    /\ payments[o].status = "succeeded"
    /\ loyaltyPoints = quantity[o]

\* an environment with or without each required variable
Envs == [requiredEnvVars -> {"set", Undefined}]

\* C13: a webhook request without a signature or with a signature the
\* provider did not make is answered with a rejection and changes no
\* listing, order, payment or loyalty state; without a configured secret the
\* handler answers 500 to every request and the server does not start
C13_WebhookRejected ==
  [][/\ \A o \in Requests, type \in EventTypes :
          \A signature \in {NoSignature, ForgedSignature} :
            Webhook(o, type, signature) =>
              /\ UNCHANGED <<bag, orders, payments, loyaltyPoints>>
              /\ response' \in {"401 Missing signature",
                                 "401 Invalid signature", "TypeError"}
     /\ \A o \in Requests, type \in EventTypes :
          \A signature \in {NoSignature, ForgedSignature,
                            ProviderSignature([type |-> type, checkout |-> o])} :
            WebhookGate([type |-> type, checkout |-> o], signature, Undefined)
              = "500 Webhook not configured"
     /\ \A env \in Envs :
          env["YOCO_WEBHOOK_SECRET"] = Undefined => ~ServerStarts(env)]_vars

\* C13: a webhook request without a signature was answered 401 while an
\* order was waiting for its payment
C13_Witness ==
  /\ response = "401 Missing signature"
  /\ \E o \in Requests : orders[o].status = "pending" /\ gw[o] = "created"

\* C14: a scan is answered 'Invalid QR code' if no order has the code,
\* 'Order belongs to another restaurant' if the order is not the caller's
\* and 'Order cannot be collected' if its status is not paid or ready, and
\* then nothing is changed; a scan passes its checks only for the caller's
\* own order in status paid or ready, and its write sets the status to
\* collected and stamps qrScannedAt and changes nothing else
C14_ScanOutcomes ==
  [][\A o \in Requests :
       /\ \A ownRestaurant \in BOOLEAN :
            ScanReject(o, ownRestaurant) =>
              /\ response' =
                   IF orders[o].status = "none" THEN "Invalid QR code"
                   ELSE IF ~ownRestaurant
                        THEN "Order belongs to another restaurant"
                   ELSE "Order cannot be collected"
              /\ ownRestaurant /\ orders[o].status # "none"
                   => orders[o].status \notin {"paid", "ready"}
              /\ UNCHANGED <<bag, orders, payments, loyaltyPoints>>
       /\ ScanRead(o) =>
            /\ orders[o].status \in {"paid", "ready"}
            /\ UNCHANGED <<bag, orders, payments, loyaltyPoints>>
       /\ ScanWrite(o) =>
            /\ orders[o].status \in {"paid", "ready"} =>
                 /\ orders'[o] = [orders[o] EXCEPT
                                    !.status = "collected",
                                    !.qrScannedAt = @ + 1]
                 /\ response' = "Order marked as collected"
            /\ UNCHANGED <<bag, payments, loyaltyPoints>>]_vars

\* C14: a scan has answered that the order is collected; the order is
\* collected and stamped once and its reservation is still held
C14_Witness ==
  \E o \in Requests :
    /\ orders[o].status = "collected" /\ orders[o].qrScannedAt = 1
    /\ response = "Order marked as collected"
    /\ bag.quantityRemaining = bag.quantityTotal - quantity[o]
    /\ released[o] = 0

\* C15: the write of a scan that finds the order already collected by an
\* earlier scan of the same code changes nothing in the order row (no new
\* qrScannedAt) and does not answer that the order is collected
C15_SingleUse ==
  [][\A o \in Requests :
       (/\ ScanWrite(o)
        /\ orders[o].status = "collected"
        /\ response = "Order marked as collected") =>
         /\ orders'[o] = orders[o]
         /\ response' # "Order marked as collected"]_vars

CreateFailures ==
  {"Bag not found", "Bag is not available", "Pickup window has ended",
   "Not enough bags available"}

\* C16: order creation fails exactly when the listing is missing, inactive,
\* flagged sold out, past its pickup window or short of the quantity asked;
\* 'Bag not found' is answered for a missing listing, 'Bag is not available'
\* or 'Pickup window has ended' only for an inactive, sold-out or ended
\* listing, 'Not enough bags available' only when quantity exceeds
\* quantityRemaining; a failing step leaves the listing unchanged, and a
\* failed request has no order, no payment and no reservation
C16_CreateFailures ==
  [][\A r \in Requests :
       /\ \A found \in BOOLEAN, q \in 1..MaxQuantity :
            CreateOrderRead(r, found, q) =>
              LET failed == result'[r] # "none"
                  unavailable == ~bag.isActive \/ bag.isSoldOut \/ clockEnded
                  short == q > bag.quantityRemaining
              IN /\ failed <=> (~found \/ unavailable \/ short)
                 /\ ~found <=> result'[r] = "Bag not found"
                 /\ result'[r] \in {"Bag is not available",
                                    "Pickup window has ended"} => unavailable
                 /\ result'[r] = "Not enough bags available" => short
       /\ (CreateOrderCommit(r) /\ result'[r] # "none") =>
            /\ result'[r] = "Not enough bags available"
            /\ quantity[r] > bag.quantityRemaining
       /\ ((CreateOrderCommit(r) \/ \E found \in BOOLEAN, q \in 1..MaxQuantity :
                                     CreateOrderRead(r, found, q))
           /\ result'[r] # "none") =>
            /\ result'[r] \in CreateFailures
            /\ UNCHANGED <<bag, orders, payments, loyaltyPoints, reserved>>
            /\ orders[r] = NoRow /\ payments[r] = NoPayment /\ reserved[r] = 0]_vars

\* C16: one request failed for the quantity and another for the pickup
\* window, and the listing is as it was created
C16_Witness ==
  \E r1, r2 \in Requests :
    /\ result[r1] = "Not enough bags available"
    /\ result[r2] = "Pickup window has ended"
    /\ orders[r1] = NoRow /\ orders[r2] = NoRow
    /\ bag.quantityRemaining = bag.quantityTotal /\ ~bag.isSoldOut

\* C17: in every reachable state the listing's isSoldOut is true exactly
\* when its quantityRemaining is 0
C17_SoldOutFaithful ==
  bag.isSoldOut <=> bag.quantityRemaining = 0

\* C18: a reservation of q followed by its release gives back the listing's
\* quantityRemaining with isSoldOut false: from the listing as it is now,
\* for every quantity that can be reserved, and in every state where the
\* only order that reserved has been released once (by the buyer's cancel
\* or a cancel or failure redirect)
C18_RoundTrip ==
  /\ \A q \in 1..MaxQuantity :
       q <= bag.quantityRemaining =>
         LET taken == Reserve(bag, q, bag.quantityRemaining)
             back == Release(taken, q)
         IN /\ taken.quantityRemaining = bag.quantityRemaining - q
            /\ back.quantityRemaining = bag.quantityRemaining
            /\ ~back.isSoldOut
  /\ \A o \in Requests :
       (/\ reserved[o] > 0
        /\ released[o] = reserved[o]
        /\ \A p \in Requests \ {o} : reserved[p] = 0) =>
         /\ bag.quantityRemaining = bag.quantityTotal
         /\ ~bag.isSoldOut

\* C18: an order took the whole stock, which set isSoldOut, and was
\* released by a cancel or failure redirect that removed it
C18_Witness ==
  \E o \in Requests :
    /\ reserved[o] = bag.quantityTotal
    /\ released[o] = reserved[o]
    /\ result[o] = "201"
    /\ Removed(o)
    /\ bag.quantityRemaining = bag.quantityTotal
    /\ ~bag.isSoldOut

\* C19: for an order of quantity 1 created with its checkout on a listing
\* of one unit: while it is pending and unreleased the listing has
\* quantityRemaining 0 and isSoldOut true; once the provider's
\* payment.succeeded event for its checkout was delivered it is no longer
\* pending, and if it is paid the buyer has its loyalty point; once it is
\* collected quantityRemaining is still 0 unless it was released
C19_HappyPath ==
  \A o \in Requests :
    (bag.quantityTotal = 1 /\ quantity[o] = 1 /\ result[o] = "201") =>
      /\ (orders[o].status = "pending" /\ released[o] = 0) =>
           bag.quantityRemaining = 0 /\ bag.isSoldOut
      /\ whDelivered[o] >= 1 => orders[o].status # "pending"
      /\ orders[o].status = "paid" => loyaltyPoints >= 1
      /\ (orders[o].status = "collected" /\ released[o] = 0) =>
           bag.quantityRemaining = 0

\* C20: once a failure signal has removed an order that was created with
\* its checkout and its stock is released, each redirect handler (success,
\* cancel, failure) called for it answers with the 'failed' deep link
C20_OutOfOrder ==
  \A o \in Requests :
    (result[o] = "201" /\ Removed(o) /\ released[o] = quantity[o]) =>
      \A handler \in {"success", "cancel", "failure"} :
        RedirectLink(handler, o) = "payment/failed"

\* C21: in every reachable state every existing order has its payment row
C21_OrderHasPayment ==
  \A o \in Requests :
    orders[o].status # "none" => payments[o].status # "none"

\* C22: in every step that changes an order's status, paid is entered only
\* from pending, ready only from paid, collected only from paid or ready and
\* only by the write of a scan, refunded only from paid
C22_TransitionTable ==
  [][\A o \in Requests :
       LET from == orders[o].status
           to == orders'[o].status
       IN from # to =>
            /\ to = "paid" => from = "pending"
            /\ to = "ready" => from = "paid"
            /\ to = "collected" => from \in {"paid", "ready"} /\ ScanWrite(o)
            /\ to = "refunded" => from = "paid"]_vars

\* C23: a buyer cancel is answered 'Order not found', 'Not authorized' (not
\* the order's buyer) or 'Order cannot be cancelled' (status not pending or
\* paid) and then changes nothing; it passes its checks only for the buyer's
\* own order in status pending or paid, and its write on such an order sets
\* the status to cancelled with the buyer as actor and adds the order's
\* quantity to quantityRemaining in the same step
C23_CancelGuard ==
  [][\A o \in Requests :
       /\ \A owner \in BOOLEAN :
            CancelReject(o, owner) =>
              /\ response' =
                   IF orders[o].status = "none" THEN "Order not found"
                   ELSE IF ~owner THEN "Not authorized"
                   ELSE "Order cannot be cancelled"
              /\ owner /\ orders[o].status # "none"
                   => orders[o].status \notin {"pending", "paid"}
              /\ UNCHANGED <<bag, orders, payments, loyaltyPoints>>
       /\ CancelRead(o) =>
            /\ orders[o].status \in {"pending", "paid"}
            /\ UNCHANGED <<bag, orders, payments, loyaltyPoints>>
       /\ (CancelWrite(o) /\ orders[o].status \in {"pending", "paid"}) =>
            /\ orders'[o] = [orders[o] EXCEPT !.status = "cancelled",
                                              !.cancelledById = "buyer"]
            /\ bag'.quantityRemaining = bag.quantityRemaining + quantity[o]
            /\ response' = "Order cancelled"
            /\ UNCHANGED <<payments, loyaltyPoints>>]_vars

\* C23: the buyer cancelled the order, its quantity is back in the listing,
\* and a second cancel was answered 'Order cannot be cancelled'
C23_Witness ==
  \E o \in Requests :
    /\ orders[o].status = "cancelled" /\ orders[o].cancelledById = "buyer"
    /\ released[o] = quantity[o]
    /\ bag.quantityRemaining = bag.quantityTotal
    /\ response = "Order cannot be cancelled"

\* C24: every step that changes the listing's quantityRemaining or
\* isSoldOut is the reservation of an order creation or a release (buyer
\* cancel, cancel or failure redirect, webhook)
C24_StockFrame ==
  [][(bag'.quantityRemaining # bag.quantityRemaining
      \/ bag'.isSoldOut # bag.isSoldOut) =>
       \E o \in Requests :
         \/ CreateOrderCommit(o)
         \/ CancelWrite(o)
         \/ restoreInventory(o)
         \/ \E type \in EventTypes :
              Webhook(o, type,
                      ProviderSignature([type |-> type, checkout |-> o]))]_vars

C26_SignedWebhookApplied ==
  [][\A o \in Requests :
       LET body == [type |-> "payment.succeeded", checkout |-> o]
       IN (/\ Webhook(o, "payment.succeeded", ProviderSignature(body))
           /\ orders[o].status = "pending"
           /\ payments[o].status # "none")
            => /\ response' = "received"
               /\ orders'[o].status = "paid"]_vars

\* C27: the writes of GET /yoco/cancel and GET /yoco/failure leave an order
\* that is paid, ready or collected in place and do not raise the listing's
\* quantityRemaining
C27_RedirectOnlyPending ==
  [][\A o \in Requests :
       orders[o].status \in {"paid", "ready", "collected"} =>
         /\ restoreInventory(o) =>
              bag'.quantityRemaining <= bag.quantityRemaining
         /\ RedirectDelete(o) => orders'[o] = orders[o]]_vars

\* C28: in every reachable state an order in status collected still holds its
\* reservation: none of its quantity has been added back to the listing
C28_CollectedHoldsReservation ==
  \A o \in Requests : orders[o].status = "collected" => released[o] = 0

\* C29: once the provider has delivered a payment.succeeded event with its
\* signature for an order's checkout, the order is eventually paid (an order
\* that was cancelled or removed in the meantime is not held against it)
C29_ConfirmationNotLost ==
  \A o \in Requests :
    (whDelivered[o] >= 1) ~> (orders[o].status = "paid" \/ FailureState(o))

\* C30: POST /auth/refresh with a refresh token whose row a logout has
\* revoked is rejected and stores no new token
C30_RevokedTokenRejected ==
  [][\A token \in 1..MaxTokens :
       (/\ token \in DOMAIN tokenRows
        /\ tokenRows[token].revoked
        /\ Refresh(token))
         => /\ response' = "Invalid refresh token"
            /\ tokenRows' = tokenRows]_vars

====
